---- MODULE Spec2Model ----
(***************************************************************************)
(* NANPA prefix updater (src/nanpa_updater.py): archive extraction, row    *)
(* parsing, prefix resolution, brand/type classification, last-writer-wins *)
(* dataset building and persistence with backups.                          *)
(*                                                                         *)
(* A Python str is modelled as a sequence of characters, each character a  *)
(* one-element string; the empty str is << >>.  A character outside ASCII  *)
(* is written by its code point, e.g. "U+0663" (ARABIC-INDIC DIGIT THREE). *)
(***************************************************************************)
EXTENDS Integers, Sequences, FiniteSets, TLC

\* ---------------------------------------------------------------- bounds
\* Runs of main() in one behaviour of Spec.
MaxRuns == 2
\* Minutes the wall clock may advance (backup names have minute resolution).
MaxClock == 1
\* Rows read in one behaviour of SpecRows.
MaxRows == 2
\* Words in a company name of SpecClassify.
MaxWords == 2

\* ------------------------------------------------------- str primitives
Lowers == << "a","b","c","d","e","f","g","h","i","j","k","l","m",
             "n","o","p","q","r","s","t","u","v","w","x","y","z" >>
Uppers == << "A","B","C","D","E","F","G","H","I","J","K","L","M",
             "N","O","P","Q","R","S","T","U","V","W","X","Y","Z" >>
AsciiDigits == { "0","1","2","3","4","5","6","7","8","9" }
\* Characters outside ASCII for which str.isdigit() is true
\* (ARABIC-INDIC DIGITS ONE, TWO, THREE; SUPERSCRIPT TWO).
UnicodeDigits == { "U+0661", "U+0662", "U+0663", "U+00B2" }

IndexIn(seq, ch) == CHOOSE i \in 1..Len(seq) : seq[i] = ch
IsLower(ch) == \E i \in 1..Len(Lowers) : Lowers[i] = ch
IsUpper(ch) == \E i \in 1..Len(Uppers) : Uppers[i] = ch
IsCased(ch) == IsLower(ch) \/ IsUpper(ch)
upperChar(ch) == IF IsLower(ch) THEN Uppers[IndexIn(Lowers, ch)] ELSE ch
lowerChar(ch) == IF IsUpper(ch) THEN Lowers[IndexIn(Uppers, ch)] ELSE ch

\* str.upper()
upper(s) == [i \in 1..Len(s) |-> upperChar(s[i])]
\* str.isdigit(): non-empty and every character is a digit character
isdigit(s) == Len(s) > 0 /\ \A i \in 1..Len(s) : s[i] \in AsciiDigits \cup UnicodeDigits
\* kw in c
In(kw, c) == \E i \in 0..(Len(c) - Len(kw)) : SubSeq(c, i + 1, i + Len(kw)) = kw
\* any(kw in c for kw in kws)
AnyIn(kws, c) == \E k \in 1..Len(kws) : In(kws[k], c)
\* x or y
Or(x, y) == IF x # << >> THEN x ELSE y
IsSpace(ch) == ch \in { " ", "\t" }
\* str.strip()
RECURSIVE lstrip(_)
lstrip(s) == IF s # << >> /\ IsSpace(Head(s)) THEN lstrip(Tail(s)) ELSE s
RECURSIVE rstrip(_)
rstrip(s) == IF s # << >> /\ IsSpace(s[Len(s)]) THEN rstrip(SubSeq(s, 1, Len(s) - 1)) ELSE s
strip(s) == rstrip(lstrip(s))
\* str.title(): a cased character is upper-cased unless it follows a cased one
title(s) == [i \in 1..Len(s) |->
               IF i > 1 /\ IsCased(s[i - 1]) THEN lowerChar(s[i]) ELSE upperChar(s[i])]
\* str.replace("_", " ")
replace_underscore(s) == [i \in 1..Len(s) |-> IF s[i] = "_" THEN " " ELSE s[i]]
\* position of the first "-" of a str that has one
FirstHyphen(s) == CHOOSE i \in 1..Len(s) : s[i] = "-" /\ \A j \in 1..(i - 1) : s[j] # "-"
Min(S) == CHOOSE x \in S : \A y \in S : x <= y

\* ------------------------------------------------------ program constants
STATE_MAP ==
  << [abbr |-> <<"A","L">>, name |-> <<"A","l","a","b","a","m","a">>],
     [abbr |-> <<"A","K">>, name |-> <<"A","l","a","s","k","a">>],
     [abbr |-> <<"A","Z">>, name |-> <<"A","r","i","z","o","n","a">>],
     [abbr |-> <<"A","R">>, name |-> <<"A","r","k","a","n","s","a","s">>],
     [abbr |-> <<"C","A">>, name |-> <<"C","a","l","i","f","o","r","n","i","a">>],
     [abbr |-> <<"C","O">>, name |-> <<"C","o","l","o","r","a","d","o">>],
     [abbr |-> <<"C","T">>, name |-> <<"C","o","n","n","e","c","t","i","c","u","t">>],
     [abbr |-> <<"D","E">>, name |-> <<"D","e","l","a","w","a","r","e">>],
     [abbr |-> <<"D","C">>, name |-> <<"D","i","s","t","r","i","c","t"," ","o","f"," ","C","o","l","u","m","b","i","a">>],
     [abbr |-> <<"F","L">>, name |-> <<"F","l","o","r","i","d","a">>],
     [abbr |-> <<"G","A">>, name |-> <<"G","e","o","r","g","i","a">>],
     [abbr |-> <<"H","I">>, name |-> <<"H","a","w","a","i","i">>],
     [abbr |-> <<"I","D">>, name |-> <<"I","d","a","h","o">>],
     [abbr |-> <<"I","L">>, name |-> <<"I","l","l","i","n","o","i","s">>],
     [abbr |-> <<"I","N">>, name |-> <<"I","n","d","i","a","n","a">>],
     [abbr |-> <<"I","A">>, name |-> <<"I","o","w","a">>],
     [abbr |-> <<"K","S">>, name |-> <<"K","a","n","s","a","s">>],
     [abbr |-> <<"K","Y">>, name |-> <<"K","e","n","t","u","c","k","y">>],
     [abbr |-> <<"L","A">>, name |-> <<"L","o","u","i","s","i","a","n","a">>],
     [abbr |-> <<"M","E">>, name |-> <<"M","a","i","n","e">>],
     [abbr |-> <<"M","D">>, name |-> <<"M","a","r","y","l","a","n","d">>],
     [abbr |-> <<"M","A">>, name |-> <<"M","a","s","s","a","c","h","u","s","e","t","t","s">>],
     [abbr |-> <<"M","I">>, name |-> <<"M","i","c","h","i","g","a","n">>],
     [abbr |-> <<"M","N">>, name |-> <<"M","i","n","n","e","s","o","t","a">>],
     [abbr |-> <<"M","S">>, name |-> <<"M","i","s","s","i","s","s","i","p","p","i">>],
     [abbr |-> <<"M","O">>, name |-> <<"M","i","s","s","o","u","r","i">>],
     [abbr |-> <<"M","T">>, name |-> <<"M","o","n","t","a","n","a">>],
     [abbr |-> <<"N","E">>, name |-> <<"N","e","b","r","a","s","k","a">>],
     [abbr |-> <<"N","V">>, name |-> <<"N","e","v","a","d","a">>],
     [abbr |-> <<"N","H">>, name |-> <<"N","e","w"," ","H","a","m","p","s","h","i","r","e">>],
     [abbr |-> <<"N","J">>, name |-> <<"N","e","w"," ","J","e","r","s","e","y">>],
     [abbr |-> <<"N","M">>, name |-> <<"N","e","w"," ","M","e","x","i","c","o">>],
     [abbr |-> <<"N","Y">>, name |-> <<"N","e","w"," ","Y","o","r","k">>],
     [abbr |-> <<"N","C">>, name |-> <<"N","o","r","t","h"," ","C","a","r","o","l","i","n","a">>],
     [abbr |-> <<"N","D">>, name |-> <<"N","o","r","t","h"," ","D","a","k","o","t","a">>],
     [abbr |-> <<"O","H">>, name |-> <<"O","h","i","o">>],
     [abbr |-> <<"O","K">>, name |-> <<"O","k","l","a","h","o","m","a">>],
     [abbr |-> <<"O","R">>, name |-> <<"O","r","e","g","o","n">>],
     [abbr |-> <<"P","A">>, name |-> <<"P","e","n","n","s","y","l","v","a","n","i","a">>],
     [abbr |-> <<"R","I">>, name |-> <<"R","h","o","d","e"," ","I","s","l","a","n","d">>],
     [abbr |-> <<"S","C">>, name |-> <<"S","o","u","t","h"," ","C","a","r","o","l","i","n","a">>],
     [abbr |-> <<"S","D">>, name |-> <<"S","o","u","t","h"," ","D","a","k","o","t","a">>],
     [abbr |-> <<"T","N">>, name |-> <<"T","e","n","n","e","s","s","e","e">>],
     [abbr |-> <<"T","X">>, name |-> <<"T","e","x","a","s">>],
     [abbr |-> <<"U","T">>, name |-> <<"U","t","a","h">>],
     [abbr |-> <<"V","T">>, name |-> <<"V","e","r","m","o","n","t">>],
     [abbr |-> <<"V","A">>, name |-> <<"V","i","r","g","i","n","i","a">>],
     [abbr |-> <<"W","A">>, name |-> <<"W","a","s","h","i","n","g","t","o","n">>],
     [abbr |-> <<"W","V">>, name |-> <<"W","e","s","t"," ","V","i","r","g","i","n","i","a">>],
     [abbr |-> <<"W","I">>, name |-> <<"W","i","s","c","o","n","s","i","n">>],
     [abbr |-> <<"W","Y">>, name |-> <<"W","y","o","m","i","n","g">>] >>

BRAND_KEYWORDS ==
  << [keywords |-> << <<"N","E","W"," ","C","I","N","G","U","L","A","R">>, <<"A","T","&","T"," ","M","O","B","I","L","I","T","Y">>, <<"A","T","&","T">>, <<"C","R","I","C","K","E","T">>, <<"F","I","R","S","T","N","E","T">>, <<"F","I","R","S","T"," ","N","E","T">> >>,
      brand |-> <<"A","T","&","T">>],
     [keywords |-> << <<"C","E","L","L","C","O"," ","P","A","R","T","N","E","R","S","H","I","P">>, <<"V","E","R","I","Z","O","N"," ","W","I","R","E","L","E","S","S">>, <<"V","E","R","I","Z","O","N">>, <<"T","R","A","C","F","O","N","E">>, <<"S","T","R","A","I","G","H","T"," ","T","A","L","K">>, <<"T","O","T","A","L"," ","B","Y"," ","V","E","R","I","Z","O","N">>, <<"S","I","M","P","L","E"," ","M","O","B","I","L","E">>, <<"N","E","T","1","0">>, <<"N","E","T"," ","1","0">>, <<"P","A","G","E"," ","P","L","U","S">>, <<"S","A","F","E","L","I","N","K">> >>,
      brand |-> <<"V","e","r","i","z","o","n">>],
     [keywords |-> << <<"T","-","M","O","B","I","L","E">>, <<"T","M","O","B","I","L","E">>, <<"M","E","T","R","O","P","C","S">>, <<"M","E","T","R","O"," ","B","Y"," ","T","-","M","O","B","I","L","E">>, <<"M","E","T","R","O"," ">>, <<"S","P","R","I","N","T"," ","S","P","E","C","T","R","U","M">>, <<"S","P","R","I","N","T">>, <<"C","L","E","A","R","W","I","R","E">>, <<"M","I","N","T"," ","M","O","B","I","L","E">>, <<"U","L","T","R","A"," ","M","O","B","I","L","E">>, <<"G","O","O","G","L","E"," ","F","I">> >>,
      brand |-> <<"T","-","M","o","b","i","l","e">>],
     [keywords |-> << <<"U","S"," ","C","E","L","L","U","L","A","R">>, <<"U","N","I","T","E","D"," ","S","T","A","T","E","S"," ","C","E","L","L","U","L","A","R">> >>,
      brand |-> <<"U","S","c","e","l","l","u","l","a","r">>],
     [keywords |-> << <<"D","I","S","H"," ","W","I","R","E","L","E","S","S">>, <<"B","O","O","S","T"," ","M","O","B","I","L","E">>, <<"B","O","O","S","T">> >>,
      brand |-> <<"D","I","S","H">>] >>

WIRELESS_KEYWORDS ==
  << <<"W","I","R","E","L","E","S","S">>, <<"M","O","B","I","L","E">>, <<"C","E","L","L">>, <<"P","C","S">>, <<"L","T","E">>, <<"5","G">> >>

VOIP_KEYWORDS ==
  << <<"V","O","I","P">>, <<"V","O","N","A","G","E">>, <<"B","A","N","D","W","I","D","T","H">>, <<"L","E","V","E","L"," ","3">>, <<"L","3">>, <<"L","U","M","E","N"," ","V","O","I","P">>, <<"T","W","I","L","I","O">>, <<"Z","O","O","M"," ","P","H","O","N","E">> >>

PAGING_KEYWORDS ==
  << <<"P","A","G","I","N","G">>, <<"U","S","A"," ","M","O","B","I","L","I","T","Y">>, <<"A","M","E","R","I","C","A","N"," ","M","E","S","S","A","G","I","N","G">> >>

LANDLINE_KEYWORDS ==
  << <<"F","R","O","N","T","I","E","R">>, <<"W","I","N","D","S","T","R","E","A","M">>, <<"C","O","N","S","O","L","I","D","A","T","E","D"," ","C","O","M","M","U","N","I","C","A","T","I","O","N","S">>, <<"C","E","N","T","U","R","Y","L","I","N","K">>, <<"E","M","B","A","R","Q">>, <<"Q","W","E","S","T">>, <<"L","U","M","E","N">>, <<"C","O","X">>, <<"C","O","M","C","A","S","T">>, <<"X","F","I","N","I","T","Y">>, <<"C","H","A","R","T","E","R">>, <<"S","P","E","C","T","R","U","M">>, <<"V","E","R","I","Z","O","N">>, <<"A","T","&","T">> >>

Mobile == <<"M","o","b","i","l","e">>
VoIP == <<"V","o","I","P">>
Paging == <<"P","a","g","i","n","g">>
Landline == <<"L","a","n","d","l","i","n","e">>
WirelessParents == { <<"A","T","&","T">>, <<"V","e","r","i","z","o","n">>, <<"T","-","M","o","b","i","l","e">>, <<"U","S","c","e","l","l","u","l","a","r">>, <<"D","I","S","H">> }

\* --------------------------------------------------------- classification
\* faulty variant: the last matching rule wins instead of the first
normalize_brand_last(company) ==
  LET c == upper(company)
      hits == { r \in 1..Len(BRAND_KEYWORDS) : AnyIn(BRAND_KEYWORDS[r].keywords, c) }
  IN  IF hits = {} THEN << >>
      ELSE BRAND_KEYWORDS[CHOOSE r \in hits : \A q \in hits : q <= r].brand

normalize_brand(company) ==
  LET c == upper(company)
      hits == { r \in 1..Len(BRAND_KEYWORDS) : AnyIn(BRAND_KEYWORDS[r].keywords, c) }
  IN  IF hits = {} THEN << >> ELSE BRAND_KEYWORDS[Min(hits)].brand

\* faulty variant: the landline family is tested before the VoIP and paging families
detect_type_landline_first(company, brand) ==
  LET c == upper(company)
  IN  IF brand \in WirelessParents THEN Mobile
      ELSE IF AnyIn(WIRELESS_KEYWORDS, c) THEN Mobile
      ELSE IF AnyIn(LANDLINE_KEYWORDS, c) THEN Landline
      ELSE IF AnyIn(VOIP_KEYWORDS, c) THEN VoIP
      ELSE IF AnyIn(PAGING_KEYWORDS, c) THEN Paging
      ELSE << >>

detect_type(company, brand) ==
  LET c == upper(company)
  IN  IF brand \in WirelessParents THEN Mobile
      ELSE IF AnyIn(WIRELESS_KEYWORDS, c) THEN Mobile
      ELSE IF AnyIn(VOIP_KEYWORDS, c) THEN VoIP
      ELSE IF AnyIn(PAGING_KEYWORDS, c) THEN Paging
      ELSE IF AnyIn(LANDLINE_KEYWORDS, c) THEN Landline
      ELSE << >>

safe_title(s) == IF s # << >> THEN replace_underscore(title(s)) ELSE << >>

\* STATE_MAP.get(key, default)
state_lookup(key, default) ==
  IF \E i \in 1..Len(STATE_MAP) : STATE_MAP[i].abbr = key
  THEN STATE_MAP[CHOOSE i \in 1..Len(STATE_MAP) : STATE_MAP[i].abbr = key].name
  ELSE default

\* ------------------------------------------------------------------ rows
\* A row is the mapping the reader yields; a header the file does not have
\* reads as the empty str (row.get(h) or '').
Headers == { "NPA-NXX", "NPA NXX", "NPA", "NXX", "Company", "Operating Company Name",
             "OCN", "OCN ", "RateCenter", "Rate Center", "State" }
EmptyRow == [h \in Headers |-> << >>]
NoPair == [npa |-> << >>, nxx |-> << >>]

\* build_data, prefix resolution
resolve_prefix(row) ==
  LET npa_nxx == Or(row["NPA-NXX"], row["NPA NXX"])
  IN  IF In(<< "-" >>, npa_nxx)
      THEN LET h == FirstHyphen(npa_nxx)
               a == SubSeq(npa_nxx, 1, h - 1)
               b == SubSeq(npa_nxx, h + 1, Len(npa_nxx))
           IN  IF isdigit(a) /\ isdigit(b) THEN [npa |-> a, nxx |-> b] ELSE NoPair
      ELSE IF Len(npa_nxx) = 6 /\ isdigit(npa_nxx)
      THEN [npa |-> SubSeq(npa_nxx, 1, 3), nxx |-> SubSeq(npa_nxx, 4, 6)]
      ELSE LET a == strip(row["NPA"])
               b == strip(row["NXX"])
           IN  IF isdigit(a) /\ isdigit(b) THEN [npa |-> a, nxx |-> b] ELSE NoPair

\* build_data, the test that lets a row through
accepted(row) ==
  LET p == resolve_prefix(row)
  IN  /\ p.npa # << >> /\ p.nxx # << >>
      /\ Len(p.npa) = 3 /\ Len(p.nxx) = 3
      /\ isdigit(p.npa) /\ isdigit(p.nxx)

prefix_of(row) == LET p == resolve_prefix(row) IN p.npa \o p.nxx

\* build_data, the record of an accepted row read from file fn
make_rec(row, fn) ==
  LET company_original == Or(row["Company"], row["Operating Company Name"])
      ocn == Or(row["OCN"], row["OCN "])
      rate_center == Or(row["RateCenter"], row["Rate Center"])
      state_abbr == strip(row["State"])
      state_full == state_lookup(upper(state_abbr), state_abbr)
      city == safe_title(rate_center)
      carrier == Or(normalize_brand(company_original), company_original)
      brand == normalize_brand(company_original)
      type == detect_type(company_original, brand)
  IN  [ prefix |-> prefix_of(row),
        ocn |-> ocn,
        company |-> company_original,
        company_original |-> company_original,
        carrier |-> carrier,
        type |-> type,
        rate_center |-> rate_center,
        city |-> city,
        state |-> state_full,
        last_source |-> fn ]

\* data[prefix] = rec
Put(d, k, v) == [x \in (DOMAIN d) \cup {k} |-> IF x = k THEN v ELSE d[x]]
EmptyData == [x \in {} |-> 0]

Fields == { "prefix", "ocn", "company", "company_original", "carrier", "type",
            "rate_center", "city", "state", "last_source" }

\* faulty variant: an upsert that keeps the old value of a field the new row leaves empty
process_row_merge(d, row, fn) ==
  IF ~accepted(row) THEN d
  ELSE LET new == make_rec(row, fn)
           k == new.prefix
       IN  IF k \in DOMAIN d
           THEN Put(d, k, [f \in Fields |-> Or(new[f], d[k][f])])
           ELSE Put(d, k, new)

\* build_data, the body of the row loop
process_row(d, row, fn) ==
  IF ~accepted(row) THEN d
  ELSE LET rec == make_rec(row, fn) IN Put(d, rec.prefix, rec)

RECURSIVE process_rows(_, _, _)
process_rows(d, rows, fn) ==
  IF rows = << >> THEN d
  ELSE process_rows(process_row(d, Head(rows), fn), Tail(rows), fn)

\* ----------------------------------------------------------------- files
lower(s) == [i \in 1..Len(s) |-> lowerChar(s[i])]
EndsWith(s, suf) == Len(s) >= Len(suf) /\ SubSeq(s, Len(s) - Len(suf) + 1, Len(s)) = suf
\* fn.lower().endswith(('.txt', '.csv', '.xlsx'))
eligible(fn) == \E suf \in { <<".","t","x","t">>, <<".","c","s","v">>, <<".","x","l","s","x">> } : EndsWith(lower(fn), suf)
\* z.lower().endswith('.zip')
is_zip_name(z) == EndsWith(lower(z), <<".","z","i","p">>)

Row(npa_nxx, company, ocn, rate_center, state) ==
  [EmptyRow EXCEPT !["NPA-NXX"] = npa_nxx, !["Company"] = company, !["OCN"] = ocn,
                   !["Rate Center"] = rate_center, !["State"] = state]

\* ------------------------------------------------------------ the reader
\* iter_rows_from_file: every cell stripped
iter_rows_from_file(f) ==
  [i \in 1..Len(f.rows) |-> [h \in Headers |-> strip(f.rows[i][h])]]

\* A file of the working tree: its name, the cells of its data rows as stored,
\* and whether reading it raises (not a workbook, a row longer than the header).
File ==
  [ avail |-> [ name |-> <<"a","v","a","i","l",".","c","s","v">>, malformed |-> FALSE,
                rows |-> << Row(<<"2","1","2","-","5","5","5">>, <<" ","A","c","m","e"," ","T","e","l","e","c","o","m">>, <<"1","2","3","4">>, <<"N","E","W","_","Y","O","R","K">>, <<"n","y"," ">>),
                            Row(<<"A","B","C","-","D","E","F">>, <<"A","c","m","e"," ","T","e","l","e","c","o","m">>, <<"1","2","3","4">>, << >>, <<"N","Y">>) >> ],
    util |-> [ name |-> <<"u","t","i","l",".","T","X","T">>, malformed |-> FALSE,
               rows |-> << Row(<<"2","1","2","-","5","5","5">>, <<"A","T","&","T"," ","C","o","r","p">>, << >>, << >>, << >>),
                           Row(<<"3","0","5","-","7","7","7">>, <<"F","r","o","n","t","i","e","r">>, <<"9">>, <<"M","I","A","M","I">>, <<"F","L">>) >> ],
    readme |-> [ name |-> <<"r","e","a","d","m","e",".","p","d","f">>, malformed |-> FALSE,
                 rows |-> << Row(<<"7","0","2","-","3","3","3">>, <<"V","o","n","a","g","e">>, << >>, << >>, <<"N","V">>) >> ],
    broken |-> [ name |-> <<"b","r","o","k","e","n",".","x","l","s","x">>, malformed |-> TRUE, rows |-> << >> ],
    part |-> [ name |-> <<"p","a","r","t",".","c","s","v">>, malformed |-> FALSE,
               rows |-> << Row(<<"4","0","8","-","1","1","1">>, <<"T","w","i","l","i","o">>, << >>, << >>, <<"C","A">>) >> ],
    old |-> [ name |-> <<"o","l","d",".","c","s","v">>, malformed |-> FALSE,
              rows |-> << Row(<<"9","9","9","-","0","0","0">>, <<"O","l","d"," ","P","a","g","i","n","g"," ","C","o">>, << >>, << >>, <<"Z","Z">>) >> ] ]
FileIds == DOMAIN File

\* An entry of the zip directory.  kind: "zip" a sound archive; "badzip" an
\* archive ZipFile() rejects with BadZipFile; "badmember" an archive whose member
\* number failAt fails its CRC while extractall() writes it (BadZipFile after the
\* members up to it were written); "unreadable" an entry open() refuses (OSError).
\* "notes" is an entry whose name does not end in .zip.
Container ==
  [ avail |-> [ name |-> <<"a","v","a","i","l",".","z","i","p">>, kind |-> "zip", members |-> << "avail" >>, failAt |-> 0 ],
    util |-> [ name |-> <<"U","t","i","l",".","Z","I","P">>, kind |-> "zip", members |-> << "util", "readme" >>, failAt |-> 0 ],
    broken |-> [ name |-> <<"b","r","o","k","e","n",".","z","i","p">>, kind |-> "zip", members |-> << "broken" >>, failAt |-> 0 ],
    bad |-> [ name |-> <<"b","a","d",".","z","i","p">>, kind |-> "badzip", members |-> << >>, failAt |-> 0 ],
    crc |-> [ name |-> <<"c","r","c",".","z","i","p">>, kind |-> "badmember", members |-> << "part" >>, failAt |-> 1 ],
    locked |-> [ name |-> <<"l","o","c","k","e","d",".","z","i","p">>, kind |-> "unreadable", members |-> << >>, failAt |-> 0 ],
    notes |-> [ name |-> <<"n","o","t","e","s",".","t","x","t">>, kind |-> "zip", members |-> << "old" >>, failAt |-> 0 ] ]
ContainerIds == DOMAIN Container

RECURSIVE Perms(_)
Perms(S) == IF S = {} THEN { << >> }
            ELSE UNION { { << x >> \o p : p \in Perms(S \ {x}) } : x \in S }
\* the orders in which os.listdir() may answer, per content of the zip directory
\* (f @@ << >> is f with its values computed once)
ListdirOrders == [S \in SUBSET ContainerIds |-> Perms(S)] @@ << >>
\* the orders in which os.walk() may visit the files of a tree
WalkOrders == [S \in SUBSET FileIds |-> Perms(S)] @@ << >>

\* the entries extract_all looks into, the files build_data reads, and their rows
\* as the reader yields them (tables of is_zip_name, eligible, iter_rows_from_file)
ZipNamed == { z \in ContainerIds : is_zip_name(Container[z].name) }
Eligible == { g \in FileIds : eligible(File[g].name) }

\* ------------------------------------------------------------ extraction
\* A directory is the set of its files; no two have the same name.
RECURSIVE write_members(_, _, _)
write_members(dir, members, n) ==
  IF n = 0 \/ members = << >> THEN dir
  ELSE write_members({ g \in dir : File[g].name # File[Head(members)].name } \cup { Head(members) },
                     Tail(members), n - 1)

\* extract_all, one pass of the loop over os.listdir(zip_dir); st is
\* [dir, found, raised]
extract_one(st, zid) ==
  LET z == Container[zid]
  IN  IF st.raised \/ zid \notin ZipNamed THEN st
      ELSE IF z.kind = "unreadable" THEN [st EXCEPT !.raised = TRUE]
      ELSE IF z.kind = "badzip" THEN st
      ELSE IF z.kind = "badmember"
           THEN [st EXCEPT !.dir = write_members(st.dir, z.members, z.failAt)]
      ELSE [st EXCEPT !.dir = write_members(st.dir, z.members, Len(z.members)), !.found = TRUE]

RECURSIVE extract_loop(_, _)
extract_loop(st, order) ==
  IF order = << >> THEN st ELSE extract_loop(extract_one(st, Head(order)), Tail(order))

\* extract_all(zip_dir, out_dir) with os.listdir() answering in `order`:
\* the old output directory is removed and recreated first
extract_all(order, out_dir) ==
  extract_loop([dir |-> {}, found |-> FALSE, raised |-> FALSE], order)

\* ---------------------------------------------------------- build_data
EligibleFiles(dir) == dir \cap Eligible

RECURSIVE build_loop(_, _, _)
build_loop(st, dir, order) ==
  IF order = << >> \/ st.raised THEN st
  ELSE LET f == File[Head(order)]
       IN  IF f.malformed THEN [st EXCEPT !.raised = TRUE]
           ELSE build_loop([st EXCEPT !.data = process_rows(st.data, iter_rows_from_file(f), f.name)],
                           dir, Tail(order))

\* faulty variant: the function returns inside the loop over the files, after the first
build_data_first_file(dir, order) ==
  build_loop([data |-> EmptyData, raised |-> FALSE], dir,
             IF order = << >> THEN order ELSE << Head(order) >>)

\* build_data(out_dir) with os.walk() visiting the eligible files in `order`;
\* [data, raised]: an exception of the reader leaves the function
build_data(dir, order) ==
  build_loop([data |-> EmptyData, raised |-> FALSE], dir, order)

\* ----------------------------------------------------------- persistence
NoDoc == [exists |-> FALSE, content |-> EmptyData]
\* faulty variant: no copy is taken
backup_json_skip(doc, bk, ts) == bk

\* backup_json: copy data.json to backups/data_<ts>.json when it exists
backup_json(doc, bk, ts) ==
  IF doc.exists THEN Put(bk, ts, doc.content) ELSE bk

\* save_json
save_json(d) == [exists |-> TRUE, content |-> d]
\* save_sqlite: the table is dropped, recreated and filled
save_sqlite(d) == [exists |-> TRUE, content |-> d]

\* A document left by an earlier version of the program.
OldDoc == [exists |-> TRUE,
           content |-> process_rows(EmptyData, iter_rows_from_file(File.old), File.old.name)]

\* ----------------------------------------------------------------- state
VARIABLES
  pc,         \* where main() is: "idle", "extract", "build", "backup", "save_json",
              \* "save_sqlite", "done", "aborted"
  runs,       \* runs of main() started
  zipDir,     \* entries of nanpa_zips
  outDir,     \* nanpa_files: the files in it
  data,       \* the dataset (build_data's local, then main's)
  docJson,    \* data.json
  backups,    \* backups/: timestamp -> content
  db,         \* carriers.db, table prefixes
  clock,      \* the wall clock, in minutes
  err,        \* the function whose exception ended the run, or "none"
  prev,       \* the last build that returned: [has, dir, data]
  nRows,      \* rows read (SpecRows, SpecClassify)
  lastRow,    \* the row read last
  lastFn,     \* the file it came from
  dataBefore  \* the dataset before that row

pipeVars == << pc, runs, zipDir, outDir, docJson, backups, db, clock, err, prev >>
rowVars == << nRows, lastRow, lastFn, dataBefore >>
vars == << pc, runs, zipDir, outDir, data, docJson, backups, db, clock, err, prev,
           nRows, lastRow, lastFn, dataBefore >>

NoPrev == [has |-> FALSE, dir |-> {}, data |-> EmptyData]
RowInit == /\ nRows = 0 /\ lastRow = EmptyRow /\ lastFn = << >> /\ dataBefore = EmptyData

Init ==
  /\ pc = "idle" /\ runs = 0
  /\ zipDir \in SUBSET ContainerIds
  /\ outDir \in { {}, { "old" } }
  /\ data = EmptyData
  /\ docJson \in { NoDoc, OldDoc }
  /\ backups = [x \in {} |-> 0]
  /\ db = NoDoc
  /\ clock = 0
  /\ err = "none"
  /\ prev = NoPrev
  /\ RowInit

\* main() is started with --no-fetch: the zip directory is as the downloads
\* left it (get_zip_links and fetch_latest, the HTTP side, are not modelled)
Start ==
  /\ pc \in { "idle", "done", "aborted" } /\ runs < MaxRuns
  /\ pc' = "extract" /\ runs' = runs + 1 /\ err' = "none" /\ data' = EmptyData
  /\ UNCHANGED << zipDir, outDir, docJson, backups, db, clock, prev >>
  /\ UNCHANGED rowVars

\* extract_all(ZIPS_DIR, FILES_DIR)
ExtractAll ==
  /\ pc = "extract"
  /\ \E r \in { extract_all(order, outDir) : order \in ListdirOrders[zipDir] } :
           /\ outDir' = r.dir
           /\ pc' = IF r.raised THEN "aborted" ELSE "build"
           /\ err' = IF r.raised THEN "extract_all" ELSE "none"
  /\ UNCHANGED << runs, zipDir, data, docJson, backups, db, clock, prev >>
  /\ UNCHANGED rowVars

\* data = build_data(FILES_DIR)
BuildData ==
  /\ pc = "build"
  /\ \E r \in { build_data(outDir, order) : order \in WalkOrders[EligibleFiles(outDir)] } :
           /\ data' = IF r.raised THEN EmptyData ELSE r.data
           /\ pc' = IF r.raised THEN "aborted" ELSE "backup"
           /\ err' = IF r.raised THEN "build_data" ELSE "none"
  /\ UNCHANGED << runs, zipDir, outDir, docJson, backups, db, clock, prev >>
  /\ UNCHANGED rowVars

\* backup_json(), at some minute not before the last one seen
BackupJson ==
  /\ pc = "backup"
  /\ \E ts \in clock..MaxClock :
       /\ clock' = ts
       /\ backups' = backup_json(docJson, backups, ts)
  /\ pc' = "save_json"
  /\ UNCHANGED << runs, zipDir, outDir, data, docJson, db, err, prev >>
  /\ UNCHANGED rowVars

\* save_json(data)
SaveJson ==
  /\ pc = "save_json"
  /\ docJson' = save_json(data)
  /\ pc' = "save_sqlite"
  /\ UNCHANGED << runs, zipDir, outDir, data, backups, db, clock, err, prev >>
  /\ UNCHANGED rowVars

\* save_sqlite(data); show_summary(data) only logs
SaveSqlite ==
  /\ pc = "save_sqlite"
  /\ db' = save_sqlite(data)
  /\ pc' = "done"
  /\ prev' = [has |-> TRUE, dir |-> outDir, data |-> data]
  /\ UNCHANGED << runs, zipDir, outDir, data, docJson, backups, clock, err >>
  /\ UNCHANGED rowVars

Next == Start \/ ExtractAll \/ BuildData \/ BackupJson \/ SaveJson \/ SaveSqlite

Spec == Init /\ [][Next]_vars

\* ------------------------------------------------- rows, one at a time
\* The values a row's prefix columns take in SpecRows.
HyphenCells == { << >>, <<"2","1","2","-","5","5","5">>, <<"A","B","C","-","D","E","F">>, <<"2","1","2","-","5","5">>, <<"2","1","2","5","5","5">>, <<"2","1","2","5","5","A">>,
                 <<"U+0661","U+0662","U+0663","-","5","5","5">>, <<"2","1","2","-","5","5","5","-","1">> }
SpaceCells == { <<"3","0","5","7","7","7">>, <<"3","0","5"," ","7","7","7">> }
PartCells == { << >>, <<"2","1","2">>, <<"5","A","5">>, <<"5","5">> }

PrefixRows ==
  { [EmptyRow EXCEPT !["NPA-NXX"] = c, !["NPA"] = p[1], !["NXX"] = p[2], !["Company"] = <<"A","c","m","e">>] :
      c \in HyphenCells, p \in { << << >>, << >> >>, << <<"2","1","2">>, <<"5","5","5">> >> } }
  \cup
  { [EmptyRow EXCEPT !["NPA NXX"] = c, !["NPA"] = p[1], !["NXX"] = p[2], !["Company"] = <<"A","c","m","e">>] :
      c \in SpaceCells, p \in { << << >>, << >> >>, << <<"2","1","2">>, <<"5","5","5">> >> } }
  \cup
  { [EmptyRow EXCEPT !["NPA"] = a, !["NXX"] = b, !["Company"] = <<"A","c","m","e">>] :
      a \in PartCells, b \in PartCells }

\* Rows of one prefix that differ in the other columns, under either spelling
\* of a header.
FieldRows ==
  { [EmptyRow EXCEPT !["NPA-NXX"] = <<"2","1","2","-","5","5","5">>, ![h[1]] = co, ![h[2]] = ocn,
                     ![h[3]] = rs[1], !["State"] = rs[2]] :
      co \in { << >>, <<"A","T","&","T"," ","C","o","r","p">> }, ocn \in { << >>, <<"1","2","3","4">> },
      rs \in { << << >>, << >> >>, << <<"N","E","W","_","Y","O","R","K">>, <<"c","a">> >> },
      h \in { << "Company", "OCN", "RateCenter" >>,
              << "Operating Company Name", "OCN ", "Rate Center" >> } }

RowPool == PrefixRows \cup FieldRows
SourceNames == { <<"a",".","c","s","v">>, <<"b",".","t","x","t">> }

\* the pipeline at rest, for the specifications that only read rows
PipeIdle ==
  /\ pc = "idle" /\ runs = 0 /\ zipDir = {} /\ outDir = {}
  /\ docJson = NoDoc /\ backups = [x \in {} |-> 0] /\ db = NoDoc
  /\ clock = 0 /\ err = "none" /\ prev = NoPrev

RowsInit == PipeIdle /\ data = EmptyData /\ RowInit

\* build_data reads one more row, from a file named fn
ReadRow ==
  /\ nRows < MaxRows
  /\ \E row \in RowPool, fn \in SourceNames :
       /\ dataBefore' = data
       /\ data' = process_row(data, row, fn)
       /\ lastRow' = row /\ lastFn' = fn
  /\ nRows' = nRows + 1
  /\ UNCHANGED pipeVars

NextRows == ReadRow
SpecRows == RowsInit /\ [][NextRows]_vars

\* --------------------------------------------- rows of many companies
Vocabulary == << <<"A","T","&","T">>, <<"V","e","r","i","z","o","n">>, <<"W","i","r","e","l","e","s","s">>, <<"L","e","v","e","l"," ","3">>, <<"L","u","m","e","n">>, <<"F","r","o","n","t","i","e","r">>,
                 <<"P","a","g","i","n","g">>, <<"S","p","r","i","n","t">>, <<"S","p","e","c","t","r","u","m">>, <<"M","e","t","r","o">>, <<"A","c","m","e">>, <<"U","S","A">>,
                 <<"M","o","b","i","l","i","t","y">>, <<"W","a","l","t","e","r">> >>
RECURSIVE JoinWords(_)
JoinWords(ws) ==
  IF ws = << >> THEN << >>
  ELSE IF Len(ws) = 1 THEN Vocabulary[ws[1]]
  ELSE Vocabulary[ws[1]] \o << " " >> \o JoinWords(Tail(ws))
Companies ==
  UNION { { JoinWords(ws) : ws \in [1..n -> 1..Len(Vocabulary)] } : n \in 0..MaxWords }

\* build_data reads the one row of a file, of any company, under either header
ReadCompanyRow ==
  /\ nRows = 0
  /\ \E co \in Companies, h \in { "Company", "Operating Company Name" }, fn \in SourceNames :
       LET row == [EmptyRow EXCEPT !["NPA-NXX"] = <<"2","1","2","-","5","5","5">>, ![h] = co]
       IN  /\ dataBefore' = data
           /\ data' = process_row(data, row, fn)
           /\ lastRow' = row /\ lastFn' = fn
  /\ nRows' = nRows + 1
  /\ UNCHANGED pipeVars

NextClassify == ReadCompanyRow
SpecClassify == RowsInit /\ [][NextClassify]_vars

\* ============================================================ properties
CompanyOf(row) == Or(row["Company"], row["Operating Company Name"])
LastRec == data[prefix_of(lastRow)]
Read == nRows > 0
IsAsciiDigits(s) == \A i \in 1..Len(s) : s[i] \in AsciiDigits

\* C1: every entry of the dataset is keyed by its record's prefix, the prefix is
\* exactly 6 ASCII digits, and a row that yields no such pair adds no entry and
\* changes none.
C1_PrefixSixAsciiDigits ==
  /\ \A k \in DOMAIN data : data[k].prefix = k /\ Len(k) = 6 /\ IsAsciiDigits(k)
  /\ (Read /\ ~accepted(lastRow)) => data = dataBefore

\* C2: after an accepted row, the entry of its prefix is the record built from
\* that row alone, in every field, whatever an earlier row of the prefix held.
C2_LastWriterWins ==
  (Read /\ accepted(lastRow)) =>
     /\ prefix_of(lastRow) \in DOMAIN data
     /\ LastRec = make_rec(lastRow, lastFn)
     /\ LastRec.ocn = Or(lastRow["OCN"], lastRow["OCN "])
     /\ LastRec.company = CompanyOf(lastRow)
     /\ LastRec.rate_center = Or(lastRow["RateCenter"], lastRow["Rate Center"])
     /\ LastRec.last_source = lastFn

\* C2 witness: the later of two accepted rows of one prefix leaves empty the OCN,
\* the company and the rate center the earlier row gave, and the entry has them empty.
C2_Witness ==
  /\ nRows = 2 /\ accepted(lastRow)
  /\ prefix_of(lastRow) \in DOMAIN dataBefore
  /\ dataBefore[prefix_of(lastRow)].ocn # << >>
  /\ dataBefore[prefix_of(lastRow)].company # << >>
  /\ dataBefore[prefix_of(lastRow)].rate_center # << >>
  /\ LastRec.ocn = << >> /\ LastRec.company = << >> /\ LastRec.city = << >>
  /\ LastRec.carrier = << >> /\ LastRec.type = << >>

\* The three steps of prefix resolution, each tried when the ones before it did
\* not succeed.
Combined(row) == Or(row["NPA-NXX"], row["NPA NXX"])
HyphenParts(c) == [npa |-> SubSeq(c, 1, FirstHyphen(c) - 1),
                   nxx |-> SubSeq(c, FirstHyphen(c) + 1, Len(c))]
Step1(row) == /\ In(<< "-" >>, Combined(row))
              /\ isdigit(HyphenParts(Combined(row)).npa)
              /\ isdigit(HyphenParts(Combined(row)).nxx)
Step2(row) == /\ ~In(<< "-" >>, Combined(row))
              /\ Len(Combined(row)) = 6 /\ isdigit(Combined(row))
Step3(row) == isdigit(row["NPA"]) /\ isdigit(row["NXX"])
StepwisePair(row) ==
  IF Step1(row) THEN HyphenParts(Combined(row))
  ELSE IF Step2(row) THEN [npa |-> SubSeq(Combined(row), 1, 3), nxx |-> SubSeq(Combined(row), 4, 6)]
  ELSE IF Step3(row) THEN [npa |-> row["NPA"], nxx |-> row["NXX"]]
  ELSE NoPair

\* C3: the prefix is that of the first of the three steps that succeeds; a row
\* is discarded only if none succeeds or a part is not 3 characters long.
C3_FirstSuccessfulStepWins ==
  Read =>
    LET p == StepwisePair(lastRow)
    IN  IF Len(p.npa) = 3 /\ Len(p.nxx) = 3
        THEN /\ (p.npa \o p.nxx) \in DOMAIN data
             /\ data[p.npa \o p.nxx].last_source = lastFn
        ELSE data = dataBefore

\* What matches the uppercased company u: brand rule r, the keyword families.
RuleMatches(r, u) == AnyIn(BRAND_KEYWORDS[r].keywords, u)
HasW(u) == AnyIn(WIRELESS_KEYWORDS, u)
HasV(u) == AnyIn(VOIP_KEYWORDS, u)
HasP(u) == AnyIn(PAGING_KEYWORDS, u)
HasL(u) == AnyIn(LANDLINE_KEYWORDS, u)

\* C5: carrier is the brand of the first matching rule, else the company string
\* itself, and then type is empty unless a type keyword matches; company_original
\* is the row's company string.
C5_CarrierFirstRuleOrOriginal ==
  (Read /\ accepted(lastRow)) =>
    LET co == CompanyOf(lastRow)
        u == upper(co)
        matching == { r \in 1..Len(BRAND_KEYWORDS) : RuleMatches(r, u) }
    IN  /\ \A r \in matching :
             (\A q \in matching : r <= q) => LastRec.carrier = BRAND_KEYWORDS[r].brand
        /\ matching = {}
             => /\ LastRec.carrier = co
                /\ (~HasW(u) /\ ~HasV(u) /\ ~HasP(u) /\ ~HasL(u)) => LastRec.type = << >>
        /\ LastRec.company_original = co

\* C5 witness: a company two rules match (Verizon's and T-Mobile's) gets the
\* brand of the earlier rule.
C5_Witness ==
  /\ Read /\ accepted(lastRow)
  /\ RuleMatches(2, upper(CompanyOf(lastRow))) /\ RuleMatches(3, upper(CompanyOf(lastRow)))
  /\ ~RuleMatches(1, upper(CompanyOf(lastRow)))
  /\ LastRec.carrier = <<"V","e","r","i","z","o","n">>

\* The brands detect_type may be handed.
BrandArgs == WirelessParents \cup { << >>, <<"L","u","m","e","n">> }
\* The type a strict first-match list gives, from what matches.
ListedType(parent, w, v, p, l) ==
  IF parent THEN Mobile
  ELSE IF w THEN Mobile
  ELSE IF v THEN VoIP
  ELSE IF p THEN Paging
  ELSE IF l THEN Landline
  ELSE << >>

\* C6: detect_type is the first-match list brand, wireless, VoIP, paging,
\* landline, blank; so a wireless keyword never gives Landline, VoIP or Paging,
\* and a VoIP keyword without a wireless signal never gives Landline.
C6_TypeDecisionList ==
  (Read /\ accepted(lastRow)) =>
    LET co == CompanyOf(lastRow)
        u == upper(co)
        w == HasW(u)
        v == HasV(u)
        p == HasP(u)
        l == HasL(u)
    IN  /\ \A b \in BrandArgs :
             detect_type(co, b) = ListedType(b \in WirelessParents, w, v, p, l)
        /\ w => LastRec.type \notin { Landline, VoIP, Paging }
        /\ (v /\ ~w) => LastRec.type # Landline
        /\ (v /\ ~w /\ LastRec.carrier \notin WirelessParents) => LastRec.type = VoIP

\* C6 witness: a company with LEVEL 3 and LUMEN and no wireless signal is VoIP.
C6_Witness ==
  /\ Read /\ accepted(lastRow)
  /\ In(<<"L","E","V","E","L"," ","3">>, upper(CompanyOf(lastRow))) /\ In(<<"L","U","M","E","N">>, upper(CompanyOf(lastRow)))
  /\ ~HasW(upper(CompanyOf(lastRow))) /\ normalize_brand(CompanyOf(lastRow)) = << >>
  /\ LastRec.type = VoIP

\* C10: a company with VERIZON or AT&T and no wireless, VoIP or paging keyword
\* is recorded as Landline.
C10_LandlineArms ==
  (Read /\ accepted(lastRow)) =>
    LET u == upper(CompanyOf(lastRow))
    IN  ((In(<<"V","E","R","I","Z","O","N">>, u) \/ In(<<"A","T","&","T">>, u)) /\ ~HasW(u) /\ ~HasV(u) /\ ~HasP(u))
        => LastRec.type = Landline

\* ------------------------------------------------------------- the run
AfterBuild == pc \in { "backup", "save_json", "save_sqlite", "done" }
RECURSIVE SeqToSet(_)
SeqToSet(s) == IF s = << >> THEN {} ELSE { Head(s) } \cup SeqToSet(Tail(s))
\* the prefixes the accepted rows of a file give
PrefixesOf(g) ==
  { prefix_of(iter_rows_from_file(File[g])[i]) :
      i \in { j \in 1..Len(File[g].rows) : accepted(iter_rows_from_file(File[g])[j]) } }

\* C4: with a file the reader fails on among the eligible files, the run still
\* builds the dataset from the other files and goes on to persistence.
C4_ReaderFailureIsSkipped ==
  (runs > 0 /\ pc \notin { "idle", "extract", "build" } /\ err # "extract_all"
     /\ \E g \in EligibleFiles(outDir) : File[g].malformed)
  => /\ AfterBuild /\ err = "none"
     /\ \A g \in EligibleFiles(outDir) : ~File[g].malformed => PrefixesOf(g) \subseteq DOMAIN data

\* the files of the sound archives of a zip directory
SoundFiles(zd) ==
  UNION { SeqToSet(Container[z].members) : z \in { y \in zd \cap ZipNamed : Container[y].kind = "zip" } }

\* C8: once extract_all has run, the output directory holds exactly the files of
\* the sound archives, whatever it held before and whatever corrupt or unreadable
\* entries the zip directory has; with no sound archive it is empty and the build
\* gives no record without failing.
C8_ExactlyTheSoundArchives ==
  (runs > 0 /\ pc \notin { "idle", "extract" }) =>
     /\ err # "extract_all"
     /\ outDir = SoundFiles(zipDir)
     /\ (SoundFiles(zipDir) = {} /\ pc # "build") => (AfterBuild /\ data = EmptyData)

\* the files of a tree in which a prefix has an accepted row
SourcesOf(k, dir) == { g \in EligibleFiles(dir) : k \in PrefixesOf(g) }
SameBut(r1, r2) == \A f \in Fields \ { "last_source" } : r1[f] = r2[f]
SecondBuild == pc = "backup" /\ prev.has /\ prev.dir = outDir

\* C7 as stated: two builds of an unchanged tree give the same keys and, for every
\* key, the same value in every field but last_source, whatever the walk orders.
C7_IdempotentAnyOrder ==
  SecondBuild =>
     /\ DOMAIN data = DOMAIN prev.data
     /\ \A k \in DOMAIN data : SameBut(data[k], prev.data[k])

\* C7 amended: the keys are the same, and so is every field but last_source of
\* a key whose accepted rows are all in one file.
C7_IdempotentSingleSource ==
  SecondBuild =>
     /\ DOMAIN data = DOMAIN prev.data
     /\ \A k \in DOMAIN data :
          Cardinality(SourcesOf(k, outDir)) <= 1 => SameBut(data[k], prev.data[k])

\* C7 witness: a second build of the same tree that differs from the first in a
\* key two files give, and agrees with it in a key one file gives.
C7_Witness ==
  /\ SecondBuild
  /\ \E k \in DOMAIN data : Cardinality(SourcesOf(k, outDir)) > 1 /\ ~SameBut(data[k], prev.data[k])
  /\ \E k \in DOMAIN data : Cardinality(SourcesOf(k, outDir)) = 1 /\ SameBut(data[k], prev.data[k])

BackedUp(doc, bk) == \E ts \in DOMAIN bk : bk[ts] = doc.content

\* C9: persistence goes backup, document, table: the document is written only by
\* the step after the backup and, if there was one, with a backup of its content
\* in place; the table is written only after the document holds the new dataset.
C9_BackupDocumentTable ==
  [][ /\ (pc = "backup" => pc' = "save_json")
      /\ (pc = "save_json" => pc' = "save_sqlite" /\ docJson' = [exists |-> TRUE, content |-> data])
      /\ (docJson' # docJson => pc = "save_json")
      /\ ((pc = "save_json" /\ docJson.exists) => BackedUp(docJson, backups) /\ backups' = backups)
      /\ (db' # db => pc = "save_sqlite" /\ docJson.content = data /\ docJson.exists
                        /\ db'.content = data)
    ]_vars

\* C9 witness: the second run is about to write the table; the document of the
\* first run, which differed, is in the backups beside the one found at the start.
C9_Witness ==
  /\ pc = "save_sqlite" /\ prev.has /\ docJson.content = data
  /\ data # prev.data
  /\ BackedUp([content |-> prev.data], backups)
  /\ BackedUp(OldDoc, backups)
====
